---------------------------- MODULE Spec2Model ----------------------------
(***************************************************************************)
(* A model of gonutz/normalize: the two-pass amplitude analysis/rescaling  *)
(* of a raw 16-bit PCM file (normalizeWavFile), the per-file job           *)
(* (normalizeFile) and the worker pool of main.                            *)
(*                                                                         *)
(* Two versions of the engine are in the repository.  variant = "clip" is  *)
(* src/normalize.go (min/max tracking and a clipping ceiling, always       *)
(* rewrites), variant = "band" is src/unnamed/part_000 (no ceiling, skips  *)
(* the rewrite when 0.9 < scale < 1.1).  The dispatcher is the one of      *)
(* src/normalize.go.                                                       *)
(*                                                                         *)
(* Number representation.                                                  *)
(*  - int16 values are integers in -32768..32767; Wrap16 is the            *)
(*    two's-complement wrap of Go's int16 arithmetic.                      *)
(*  - a uint64 value u is represented by the integer r with                *)
(*    u = r mod 2^64 and |r| < 2^31: r >= 0 is the value r, r < 0 is the   *)
(*    value 2^64 + r (about 1.8e19).                                       *)
(*  - a float64 is an extended rational: a record with kind "fin" (n/d,    *)
(*    d > 0), "tiny" (a positive number below 2^-17: n / (2^64 + r)),      *)
(*    "inf" (+Inf) or "nan".  Finite arithmetic is exact; float64 agrees   *)
(*    with it except when a product lies within rounding error of a        *)
(*    half-integer.                                                        *)
(*  - a float64 -> int16 conversion of a value int16 cannot hold is        *)
(*    implementation-dependent in Go; the variable build selects the       *)
(*    outcome ("wrap": low 16 bits of the integer part, NaN and Inf to 0;  *)
(*    "sat": saturation, NaN to 0).                                        *)
(***************************************************************************)
EXTENDS Integers, Sequences, FiniteSets, TLC

\* program constants
BufSize == 4096
HeaderSize == 44
MaxInt16 == 32767
MinInt16 == -32768
DefaultAmpl == 3200
BandScaleFactor == 1400

\* model bounds
MaxSamples == 3
MaxChunks == 1
MaxArgs == 2

Min2(a, b) == IF a < b THEN a ELSE b
Max2(a, b) == IF a > b THEN a ELSE b
Abs(x) == IF x < 0 THEN -x ELSE x

\* int16(x) for an integer x: two's-complement wrap
Wrap16(x) == ((x + 32768) % 65536) - 32768

\* -sample evaluated in int16
Neg16(x) == Wrap16(-x)

\* int16(binary.LittleEndian.Uint16(b)) for the bytes b0, b1
DecodeSample(b0, b1) ==
    LET u == b0 + 256 * b1
    IN  IF u >= 32768 THEN u - 65536 ELSE u

\* byte k (0 or 1) of binary.LittleEndian.PutUint16(buf, uint16(sample))
EncodeByte(sample, k) ==
    LET u == (sample + 65536) % 65536
    IN  IF k = 0 THEN u % 256 ELSE u \div 256

\* the sample stored at byte offset off (0-based) of file
SampleAt(file, off) == DecodeSample(file[off + 1], file[off + 2])

\* the samples of a byte sequence, in order
SamplesOf(bytes) ==
    [k \in 1..(Len(bytes) \div 2) |-> DecodeSample(bytes[2 * k - 1], bytes[2 * k])]

\* the little-endian bytes of a sequence of samples
BytesOf(samples) ==
    [i \in 1..(2 * Len(samples)) |-> EncodeByte(samples[(i + 1) \div 2], (i + 1) % 2)]

(***************************************************************************)
(* float64 as extended rationals                                           *)
(***************************************************************************)
Fin(n, d) == [k |-> "fin", n |-> n, d |-> d]
Tiny == [k |-> "tiny", n |-> 0, d |-> 1]
PosInf == [k |-> "inf", n |-> 1, d |-> 1]
NaN == [k |-> "nan", n |-> 0, d |-> 1]

\* float64(count) / float64(sum) times factor, count >= 0, factor > 0,
\* sum a uint64 in the representation above
Ratio(factor, count, sum) ==
    IF sum = 0 THEN (IF count = 0 THEN NaN ELSE PosInf)
    ELSE IF sum < 0 THEN (IF count = 0 THEN Fin(0, 1) ELSE Tiny)
    ELSE Fin(factor * count, sum)

\* <<q, r>> with a * b = q * d + r, 0 <= r < d, for 0 <= a <= 65536, 0 <= b < d;
\* no intermediate value exceeds 3 * d
RECURSIVE MulDivMod(_, _, _)
MulDivMod(a, b, d) ==
    IF a = 0 THEN <<0, 0>>
    ELSE LET h == MulDivMod(a \div 2, b, d)
             t == 2 * h[2] + (a % 2) * b
         IN  <<2 * h[1] + (t \div d), t % d>>

\* x > y for float64 x and y = 32767.0 / float64(max)
GreaterThanCeiling(x, max) ==
    CASE x.k = "nan" -> FALSE
      [] x.k = "inf" -> max # 0
      [] x.k = "tiny" -> FALSE
      [] OTHER ->
           IF max = 0 THEN FALSE
           ELSE LET qn == x.n \div x.d
                    h == MulDivMod(max, x.n % x.d, x.d)
                    q == qn * max + h[1]
                IN  IF qn >= 32768 THEN TRUE
                    ELSE q > 32767 \/ (q = 32767 /\ h[2] > 0)

\* 0.9 < x && x < 1.1
InBand(x) ==
    /\ x.k = "fin"
    /\ Abs(x.n - x.d) <= (x.d - 1) \div 10

(***************************************************************************)
(* The rewrite of one sample: int16(float64(sample)*scale -+ 0.5)          *)
(***************************************************************************)
\* RoundedMag adding 1 where the code adds 0.5
RoundedMagUp(a, scale) ==
    LET qn == scale.n \div scale.d
        h == MulDivMod(a, scale.n % scale.d, scale.d)
        frac == h[1] + 1
        small == a = 0 \/ qn <= 65534
    IN  [exact |-> small,
         m |-> IF small THEN a * qn + frac ELSE 0,
         low |-> (a * (qn % 65536) + frac) % 65536]

\* floor(a * scale + 1/2) for 0 <= a <= 32768 and finite scale n/d:
\* exact tells whether m is that number (it is whenever it is below 2^31),
\* low is the number modulo 65536
RoundedMag(a, scale) ==
    LET qn == scale.n \div scale.d
        h == MulDivMod(a, scale.n % scale.d, scale.d)
        frac == h[1] + (IF 2 * h[2] >= scale.d THEN 1 ELSE 0)
        small == a = 0 \/ qn <= 65534
    IN  [exact |-> small,
         m |-> IF small THEN a * qn + frac ELSE 0,
         low |-> (a * (qn % 65536) + frac) % 65536]

\* whether the float64 value float64(sample)*scale -+ 0.5, truncated toward
\* zero, is a value int16 can hold
Fits16(sample, scale) ==
    CASE scale.k = "nan" -> FALSE
      [] scale.k = "inf" -> FALSE
      [] scale.k = "tiny" -> TRUE
      [] OTHER ->
           LET r == RoundedMag(Abs(sample), scale)
           IN  r.exact /\ (IF sample < 0 THEN r.m <= 32768 ELSE r.m <= 32767)

\* the implementation-dependent result of converting to int16 a float64 that
\* int16 cannot hold: sign is -1, 0 (NaN) or 1, low the integer part
\* modulo 65536 (0 for NaN and the infinities)
OutOfRange16(build, sign, low) ==
    IF build = "sat"
    THEN (IF sign < 0 THEN MinInt16 ELSE IF sign > 0 THEN MaxInt16 ELSE 0)
    ELSE Wrap16(sign * low)

\* the value the rewrite pass stores for sample
ScaleSample(sample, scale, build) ==
    LET sign == IF sample < 0 THEN -1 ELSE 1
    IN  CASE scale.k = "nan" -> OutOfRange16(build, 0, 0)
          [] scale.k = "inf" ->
               OutOfRange16(build, IF sample = 0 THEN 0 ELSE sign, 0)
          [] scale.k = "tiny" -> 0
          [] OTHER ->
               LET r == RoundedMag(Abs(sample), scale)
               IN  IF Fits16(sample, scale) THEN sign * r.m
                   ELSE OutOfRange16(build, sign, r.low)

(***************************************************************************)
(* The analysis pass over one chunk                                        *)
(***************************************************************************)
\* uint64(-sample) or uint64(sample): what one sample adds to sum
AbsU64(sample) == IF sample < 0 THEN Neg16(sample) ELSE sample

\* the sum of AbsU64 over the samples lo..hi (0-based) of the chunk at pos
RECURSIVE SumAbs(_, _, _, _)
SumAbs(file, pos, lo, hi) ==
    IF lo > hi THEN 0
    ELSE IF lo = hi THEN AbsU64(SampleAt(file, pos + 2 * lo))
    ELSE LET mid == (lo + hi) \div 2
         IN  SumAbs(file, pos, lo, mid) + SumAbs(file, pos, mid + 1, hi)

\* the smallest of the samples lo..hi (lo <= hi) of the chunk at pos
RECURSIVE MinOver(_, _, _, _)
MinOver(file, pos, lo, hi) ==
    IF lo = hi THEN SampleAt(file, pos + 2 * lo)
    ELSE LET mid == (lo + hi) \div 2
         IN  Min2(MinOver(file, pos, lo, mid), MinOver(file, pos, mid + 1, hi))

\* the largest of the samples lo..hi (lo <= hi) of the chunk at pos
RECURSIVE MaxOver(_, _, _, _)
MaxOver(file, pos, lo, hi) ==
    IF lo = hi THEN SampleAt(file, pos + 2 * lo)
    ELSE LET mid == (lo + hi) \div 2
         IN  Max2(MaxOver(file, pos, lo, mid), MaxOver(file, pos, mid + 1, hi))

\* the zero-valued accumulators declared before the first loop
ZeroAcc == [sum |-> 0, min |-> 0, max |-> 0, count |-> 0]

\* n of f.Read(buf[:]) on a regular file at offset pos
ReadLen(file, pos) == Max2(0, Min2(BufSize, Len(file) - pos))

\* AccumulateChunk without the update of min
AccumulateChunkWithoutMin(variant, acc, file, pos, n) ==
    LET last == (n \div 2) - 1
    IN  [sum |-> acc.sum + SumAbs(file, pos, 0, last),
         min |-> acc.min,
         max |-> IF variant = "clip" /\ last >= 0
                 THEN Max2(acc.max, MaxOver(file, pos, 0, last)) ELSE acc.max,
         count |-> acc.count + (n \div 2)]

\* the inner for loop of the first pass over the n bytes read at pos
AccumulateChunk(variant, acc, file, pos, n) ==
    LET last == (n \div 2) - 1
    IN  [sum |-> acc.sum + SumAbs(file, pos, 0, last),
         min |-> IF variant = "clip" /\ last >= 0
                 THEN Min2(acc.min, MinOver(file, pos, 0, last)) ELSE acc.min,
         max |-> IF variant = "clip" /\ last >= 0
                 THEN Max2(acc.max, MaxOver(file, pos, 0, last)) ELSE acc.max,
         count |-> acc.count + (n \div 2)]

\* AnalyzeStep without the test of n%2
AnalyzeStepNoOddCheck(variant, acc, file, pos, ioerr) ==
    LET n == IF ioerr THEN 0 ELSE ReadLen(file, pos)
    IN  [ret |-> IF ioerr THEN "io" ELSE IF n = 0 THEN "break" ELSE "loop",
         acc |-> AccumulateChunk(variant, acc, file, pos, n),
         pos |-> pos + n]

\* one iteration of the first loop; ioerr: this f.Read fails.
\* ret is "odd" (return the format error), "io" (return err), "break" (EOF)
\* or "loop"
AnalyzeStep(variant, acc, file, pos, ioerr) ==
    LET n == IF ioerr THEN 0 ELSE ReadLen(file, pos)
    IN  IF n % 2 = 1 THEN [ret |-> "odd", acc |-> acc, pos |-> pos + n]
        ELSE [ret |-> IF ioerr THEN "io" ELSE IF n = 0 THEN "break" ELSE "loop",
              acc |-> AccumulateChunk(variant, acc, file, pos, n),
              pos |-> pos + n]

(***************************************************************************)
(* The scale                                                               *)
(***************************************************************************)
\* max after "if -min > max { max = -min }"
Peak(acc) == IF Neg16(acc.min) > acc.max THEN Neg16(acc.min) ELSE acc.max

\* ResolveClip taking the ceiling whatever scaleFactor * avg is
ResolveClipAlwaysCapped(acc, scaleFactor) == Fin(32767, Peak(acc))

\* src/normalize.go: scaleFactor * avg, capped by 32767.0 / float64(max)
ResolveClip(acc, scaleFactor) ==
    LET scale == Ratio(scaleFactor, acc.count, acc.sum)
        max1 == Peak(acc)
    IN  IF GreaterThanCeiling(scale, max1) THEN Fin(32767, max1) ELSE scale

\* src/unnamed/part_000: scaleFactor * float64(count) / float64(sum)
ResolveBand(acc) == Ratio(BandScaleFactor, acc.count, acc.sum)

\* the scale the second pass applies
Resolve(variant, acc, scaleFactor) ==
    IF variant = "clip" THEN ResolveClip(acc, scaleFactor) ELSE ResolveBand(acc)

\* SkipsRewrite with the tolerance band forgotten
NeverSkips(variant, scale) == FALSE

\* whether the function returns (false, nil) before the second pass
SkipsRewrite(variant, scale) == variant = "band" /\ InBand(scale)

(***************************************************************************)
(* The rewrite pass over one chunk                                         *)
(***************************************************************************)
\* WriteScaled without the seek back: the chunk is written where the read
\* left the offset, the file growing where the write passes its end
WriteScaledNoSeekBack(file, pos, n, scale, build) ==
    LET out == [k \in 0..((n \div 2) - 1) |->
                   ScaleSample(SampleAt(file, pos + 2 * k), scale, build)]
    IN  [i \in 1..Max2(Len(file), pos + 2 * n) |->
            IF i > pos + n /\ i <= pos + 2 * n
            THEN EncodeByte(out[(i - pos - n - 1) \div 2], (i - pos - n - 1) % 2)
            ELSE IF i <= Len(file) THEN file[i] ELSE 0]

\* file after f.Write(buf[:n]) at offset pos, buf holding the scaled samples
\* of the n bytes read there
WriteScaled(file, pos, n, scale, build) ==
    LET out == [k \in 0..((n \div 2) - 1) |->
                   ScaleSample(SampleAt(file, pos + 2 * k), scale, build)]
    IN  [i \in 1..Len(file) |->
            IF i > pos /\ i <= pos + n
            THEN EncodeByte(out[(i - pos - 1) \div 2], (i - pos - 1) % 2)
            ELSE file[i]]

\* one iteration of the second loop; io names the call that fails ("none",
\* "read2", "seekback", "write").  ret is "io", "odd", "done" or "loop"
RewriteStep(file, pos, scale, build, io) ==
    LET n == IF io = "read2" THEN 0 ELSE ReadLen(file, pos)
    IN  IF io = "read2" THEN [ret |-> "io", file |-> file, pos |-> pos]
        ELSE IF n % 2 = 1 THEN [ret |-> "odd", file |-> file, pos |-> pos + n]
        ELSE IF io = "seekback" THEN [ret |-> "io", file |-> file, pos |-> pos + n]
        ELSE IF io = "write" THEN [ret |-> "io", file |-> file, pos |-> pos]
        ELSE [ret |-> IF n = 0 THEN "done" ELSE "loop",
              file |-> WriteScaled(file, pos, n, scale, build),
              pos |-> pos + n]

(***************************************************************************)
(* normalizeWavFile as a whole, for a given storage fault                  *)
(***************************************************************************)
\* a storage fault: the call op fails the at-th time (0-based) it is made
NoFault == [op |-> "none", at |-> 0]
Faults ==
    {NoFault, [op |-> "open", at |-> 0], [op |-> "seek", at |-> 0]}
    \cup [op : {"read1", "read2", "seekback", "write"}, at : 0..MaxChunks]

\* the first loop from offset pos on, idx iterations done
RECURSIVE Pass1(_, _, _, _, _, _)
Pass1(variant, acc, file, pos, idx, fault) ==
    LET r == AnalyzeStep(variant, acc, file, pos,
                         fault.op = "read1" /\ fault.at = idx)
    IN  IF r.ret = "loop"
        THEN Pass1(variant, r.acc, file, r.pos, idx + 1, fault)
        ELSE r

\* the second loop from offset pos on, idx iterations done
RECURSIVE Pass2(_, _, _, _, _, _)
Pass2(file, pos, idx, scale, build, fault) ==
    LET io == IF fault.op \in {"read2", "seekback", "write"} /\ fault.at = idx
              THEN fault.op ELSE "none"
        r == RewriteStep(file, pos, scale, build, io)
    IN  IF r.ret = "loop"
        THEN Pass2(r.file, r.pos, idx + 1, scale, build, fault)
        ELSE r

\* what a return statement of normalizeWavFile leaves: the values returned,
\* the file's bytes, and f closed by the deferred f.Close()
Returned(changed, err, file) ==
    [changed |-> changed, err |-> err, file |-> file, open |-> FALSE]

\* normalizeWavFile on a file with the given bytes
NormalizeWavFile(file, scaleFactor, variant, build, fault) ==
    IF fault.op = "open" THEN [changed |-> FALSE, err |-> "io", file |-> file,
                               open |-> FALSE]
    ELSE
    LET a == Pass1(variant, ZeroAcc, file, HeaderSize, 0, fault)
        scale == Resolve(variant, a.acc, scaleFactor)
        b == Pass2(file, HeaderSize, 0, scale, build, fault)
    IN  IF a.ret # "break" THEN Returned(FALSE, a.ret, file)
        ELSE IF SkipsRewrite(variant, scale) THEN Returned(FALSE, "nil", file)
        ELSE IF fault.op = "seek" THEN Returned(FALSE, "io", file)
        ELSE IF b.ret = "done" THEN Returned(TRUE, "nil", b.file)
        ELSE Returned(FALSE, b.ret, b.file)

(***************************************************************************)
(* Input files                                                             *)
(***************************************************************************)
\* the sample values streams are built from
SampleVals == {-32768, -1300, 0, 1300, 3000, 30000, 32767}

\* the -ampl values tried with src/normalize.go
AmplValues == {BandScaleFactor, DefaultAmpl, 30000}

\* the 44 bytes before the samples
Header == [i \in 1..HeaderSize |-> (7 * i) % 256]

\* every stream of at most MaxSamples samples
ShortStreams == UNION {[1..n -> SampleVals] : n \in 0..MaxSamples}

\* the sample patterns long streams repeat
Motifs == {<<1300, -1300>>, <<-32768, 30000, 3000>>}

\* nbytes bytes repeating the samples of motif (an odd nbytes cuts the last
\* sample in two)
LongBytes(motif, nbytes) ==
    [i \in 1..nbytes |->
        EncodeByte(motif[(((i - 1) \div 2) % Len(motif)) + 1], (i - 1) % 2)]

\* byte lengths around the chunk boundaries
LongLengths == {k * BufSize + d : k \in 1..MaxChunks, d \in {-1, 0, 1, 2}}

\* the short sample regions: every short stream, with and without an odd
\* trailing byte
ShortData == {BytesOf(s) \o t : s \in ShortStreams, t \in {<<>>, <<7>>}}

\* the stream of the spec's scenario: 8 samples of value 100
ScenarioData == {BytesOf([k \in 1..8 |-> 100])}

\* the sample regions that span chunks
LongData == {LongBytes(m, n) : m \in Motifs, n \in LongLengths}

(***************************************************************************)
(* The file system main works on                                           *)
(***************************************************************************)
Path(dir, stem, ext) == [dir |-> dir, stem |-> stem, ext |-> ext]

\* the regular files that exist
Files ==
    {Path("a", "x", ".mp3"), Path("a", "y", ".MP3"), Path("a", "n", ".txt"),
     Path("b", "n", ".txt"), Path("b", "x", ".mp3"), Path(".", "x", ".mp3")}

\* a directory named as an argument
DirArg(dir) == Path(dir, "", "")

\* the directories that exist
Dirs == {DirArg("b"), DirArg(".")}

\* the arguments tried: files, a directory, a file inside it, a file that is
\* no mp3 and a path that does not exist
ArgUniverse ==
    {Path("a", "x", ".mp3"), Path("a", "y", ".MP3"), DirArg("b"),
     Path("b", "x", ".mp3"), Path("a", "n", ".txt"), Path("zz", "q", ".mp3")}

\* ioutil.ReadDir(dir): the entries of dir, sorted by name
ReadDir(dir) ==
    IF dir = "b" THEN <<Path("b", "n", ".txt"), Path("b", "x", ".mp3")>>
    ELSE <<Path(".", "x", ".mp3")>>

\* strings.ToLower on an extension
ToLower(ext) == IF ext = ".MP3" THEN ".mp3" ELSE ext

\* strings.HasSuffix(strings.ToLower(file), ".mp3")
IsMp3(path) == ToLower(path.ext) = ".mp3"

\* filepath.Base(path)
Base(path) == <<path.stem, path.ext>>

\* filepath.Join(tempDir, fileName+".temp.wav"): tempDir is the same for
\* every job, so the base name alone tells temporary files apart
WavPath(path) == Base(path)

\* the temporary paths there can be
WavPaths == {WavPath(f) : f \in Files}

\* readFilesFromArgs from argument k on, files holding the result so far
RECURSIVE ReadFilesFrom(_, _, _)
ReadFilesFrom(as, k, files) ==
    IF k > Len(as) THEN [err |-> FALSE, files |-> files]
    ELSE IF as[k] \in Dirs
    THEN ReadFilesFrom(as, k + 1, files \o SelectSeq(ReadDir(as[k].dir), IsMp3))
    ELSE IF as[k] \in Files
    THEN ReadFilesFrom(as, k + 1, Append(files, as[k]))
    ELSE [err |-> TRUE, files |-> <<>>]

\* readFilesFromArgs(flag.Args())
ReadFilesFromArgs(as) ==
    ReadFilesFrom(IF Len(as) = 0 THEN <<DirArg(".")>> ELSE as, 1, <<>>)

\* what ffmpeg decodes each source file to (the samples after the header)
Decoded(path) ==
    CASE path = Path("a", "x", ".mp3") -> <<1300, -1300>>
      [] path = Path("a", "y", ".MP3") -> <<0, 0>>
      [] path = Path("b", "x", ".mp3") -> <<30000, -100>>
      [] OTHER -> <<100>>

\* a source file: as found, or re-encoded from the given samples
Original == [enc |-> FALSE, samples |-> <<>>]
Encoded(bytes) ==
    [enc |-> TRUE,
     samples |-> SamplesOf(SubSeq(bytes, HeaderSize + 1, Len(bytes)))]

\* the raw file toWavFile writes for a source file
ToWav(path, content) ==
    Header \o BytesOf(IF content.enc THEN content.samples ELSE Decoded(path))

\* a temporary file: absent, or present with bytes
NoFile == [exists |-> FALSE, bytes |-> <<>>]
FileOf(bytes) == [exists |-> TRUE, bytes |-> bytes]

\* the -proc values tried
ProcValues == {-1, 0, 1, 2}

\* the storage faults tried in a pool run
PoolFaults == {NoFault, [op |-> "write", at |-> 0]}

\* what the pool is run with: src/normalize.go, the default -ampl, either
\* build
PoolConfigs ==
    [variant : {"clip"}, scaleFactor : {DefaultAmpl}, build : {"wrap", "sat"}]

VARIABLES
    variant,      \* "clip": src/normalize.go, "band": src/unnamed/part_000
    scaleFactor,  \* the scaleFactor argument (-ampl) or constant
    build,        \* the build's out-of-range float64 -> int16 conversion
    nwPc,         \* where normalizeWavFile stands
    nwFile,       \* the bytes of the file at wavPath
    nwOrig,       \* the bytes of that file when the function was called
    nwOpen,       \* whether f is open
    nwPos,        \* the file offset of f
    sum, min, max, count,  \* the accumulators of the first pass
    scale,        \* the resolved scale
    nwChanged, nwErr,      \* the values returned
    args,         \* flag.Args()
    parallel,     \* the -proc flag
    mainPc,       \* where main stands
    mp3s,         \* the paths main dispatches
    sent,         \* i of the dispatch loop: the paths handed to workers
    progress,     \* the <done> of the last progress line printed
    wg,           \* the WaitGroup counter
    workers,      \* per worker goroutine: pc, job (index in mp3s), err and
                  \* whether it holds the raw file open
    temp,         \* the temporary directory: wavPath -> file
    src,          \* the source files
    started,      \* per dispatched index: calls of normalizeFile
    finished,     \* per dispatched index: returns of normalizeFile
    errors        \* the ERROR lines printed: <<dispatched index, err>>

wavVars == <<nwPc, nwFile, nwOrig, nwOpen, nwPos, sum, min, max, count, scale,
             nwChanged, nwErr>>
cfgVars == <<variant, scaleFactor, build>>
poolVars == <<args, parallel, mainPc, mp3s, sent, progress, wg, workers, temp,
              src, started, finished, errors>>
vars == <<cfgVars, wavVars, poolVars>>

\* the engine stepped alone: the pool is not running
PoolIdle ==
    /\ args = <<>> /\ parallel = 0 /\ mainPc = "off" /\ mp3s = <<>>
    /\ sent = 0 /\ progress = 0 /\ wg = 0 /\ workers = <<>>
    /\ temp = [p \in WavPaths |-> NoFile]
    /\ src = [f \in Files |-> Original]
    /\ started = <<>> /\ finished = <<>> /\ errors = {}

\* the pool run: normalizeWavFile is taken as a whole
WavIdle ==
    /\ nwPc = "off" /\ nwFile = <<>> /\ nwOrig = <<>> /\ nwOpen = FALSE
    /\ nwPos = 0 /\ sum = 0 /\ min = 0 /\ max = 0 /\ count = 0
    /\ scale = NaN /\ nwChanged = FALSE /\ nwErr = "nil"

Acc == [sum |-> sum, min |-> min, max |-> max, count |-> count]

\* every engine version, flag value and build
WavConfigs ==
    [variant : {"clip"}, scaleFactor : AmplValues, build : {"wrap", "sat"}]
    \cup [variant : {"band"}, scaleFactor : {BandScaleFactor},
          build : {"wrap", "sat"}]

\* each engine version with its default scaleFactor
DefaultConfigs ==
    {[variant |-> "clip", scaleFactor |-> DefaultAmpl, build |-> "wrap"],
     [variant |-> "band", scaleFactor |-> BandScaleFactor, build |-> "wrap"]}

\* the runs of normalizeWavFile checked: short files under every
\* configuration, long files under the two default ones
WavInputs ==
    (WavConfigs \X (ShortData \cup ScenarioData))
       \cup (DefaultConfigs \X LongData)

InitWav ==
    /\ \E in \in WavInputs :
         /\ variant = in[1].variant
         /\ scaleFactor = in[1].scaleFactor
         /\ build = in[1].build
         /\ nwFile = Header \o in[2]
    /\ PoolIdle
    /\ nwOrig = nwFile
    /\ nwPc = "open"
    /\ nwOpen = FALSE
    /\ nwPos = 0
    /\ sum = 0 /\ min = 0 /\ max = 0 /\ count = 0
    /\ scale = NaN
    /\ nwChanged = FALSE
    /\ nwErr = "nil"

\* a return statement; the deferred f.Close() runs
NwReturn(changed, err) ==
    /\ nwPc' = "ret"
    /\ nwOpen' = FALSE
    /\ nwChanged' = changed
    /\ nwErr' = err

\* os.OpenFile and f.Seek(44, io.SeekStart)
NwOpen ==
    /\ nwPc = "open"
    /\ \E ok \in BOOLEAN :
         IF ok
         THEN /\ nwPc' = "pass1"
              /\ nwOpen' = TRUE
              /\ nwPos' = HeaderSize
              /\ UNCHANGED <<nwChanged, nwErr>>
         ELSE /\ NwReturn(FALSE, "io")
              /\ UNCHANGED nwPos
    /\ UNCHANGED <<cfgVars, poolVars, nwFile, nwOrig, sum, min, max, count, scale>>

\* one iteration of the first loop
NwAnalyze ==
    /\ nwPc = "pass1"
    /\ \E ioerr \in BOOLEAN :
         \E r \in {AnalyzeStep(variant, Acc, nwFile, nwPos, ioerr)} :
             /\ nwPos' = r.pos
             /\ sum' = r.acc.sum /\ min' = r.acc.min
             /\ max' = r.acc.max /\ count' = r.acc.count
             /\ CASE r.ret = "loop" -> UNCHANGED <<nwPc, nwOpen, nwChanged, nwErr>>
                  [] r.ret = "break" ->
                       /\ nwPc' = "resolve"
                       /\ UNCHANGED <<nwOpen, nwChanged, nwErr>>
                  [] OTHER -> NwReturn(FALSE, r.ret)
    /\ UNCHANGED <<cfgVars, poolVars, nwFile, nwOrig, scale>>

\* the scale, the peak and, in part_000, the tolerance band
NwResolve ==
    /\ nwPc = "resolve"
    /\ scale' = Resolve(variant, Acc, scaleFactor)
    /\ max' = IF variant = "clip" THEN Peak(Acc) ELSE max
    /\ IF SkipsRewrite(variant, scale')
       THEN NwReturn(FALSE, "nil")
       ELSE /\ nwPc' = "seek"
            /\ UNCHANGED <<nwOpen, nwChanged, nwErr>>
    /\ UNCHANGED <<cfgVars, poolVars, nwFile, nwOrig, nwPos, sum, min, count>>

\* f.Seek(44, io.SeekStart) before the second loop
NwSeek ==
    /\ nwPc = "seek"
    /\ \E ok \in BOOLEAN :
         IF ok
         THEN /\ nwPc' = "pass2"
              /\ nwPos' = HeaderSize
              /\ UNCHANGED <<nwOpen, nwChanged, nwErr>>
         ELSE /\ NwReturn(FALSE, "io")
              /\ UNCHANGED nwPos
    /\ UNCHANGED <<cfgVars, poolVars, nwFile, nwOrig, sum, min, max, count, scale>>

\* one iteration of the second loop
NwRewrite ==
    /\ nwPc = "pass2"
    /\ \E io \in {"none", "read2", "seekback", "write"} :
         \E r \in {RewriteStep(nwFile, nwPos, scale, build, io)} :
             /\ nwFile' = r.file
             /\ nwPos' = r.pos
             /\ CASE r.ret = "loop" -> UNCHANGED <<nwPc, nwOpen, nwChanged, nwErr>>
                  [] r.ret = "done" -> NwReturn(TRUE, "nil")
                  [] OTHER -> NwReturn(FALSE, r.ret)
    /\ UNCHANGED <<cfgVars, poolVars, nwOrig, sum, min, max, count, scale>>

NextWav == NwOpen \/ NwAnalyze \/ NwResolve \/ NwSeek \/ NwRewrite

SpecWav == InitWav /\ [][NextWav]_vars

(***************************************************************************)
(* The rewrite of one sample with a scale and then with its inverse        *)
(***************************************************************************)
\* the samples and the numerators and denominators of the scales tried
TripSamples == SampleVals \cup {-100, -3, -1, 1, 2, 3, 7, 100, 1049}
TripTerms == {1, 2, 3, 5, 7, 100}

\* 1/s for a finite positive scale s
Inverse(s) == Fin(s.d, s.n)

\* a file of one sample x, about to be rewritten with scale s
InitTrip ==
    /\ variant = "clip"
    /\ scaleFactor = DefaultAmpl
    /\ build \in {"wrap", "sat"}
    /\ PoolIdle
    /\ \E x \in TripSamples : nwFile = Header \o BytesOf(<<x>>)
    /\ nwOrig = nwFile
    /\ \E n \in TripTerms, d \in TripTerms : scale = Fin(n, d)
    /\ nwPc = "fwd"
    /\ nwOpen = TRUE
    /\ nwPos = HeaderSize
    /\ sum = 0 /\ min = 0 /\ max = 0 /\ count = 0
    /\ nwChanged = FALSE
    /\ nwErr = "nil"

\* the inner loop of the second pass over the sample, with scale s; the
\* inverse scale is taken for the way back
TripForward ==
    /\ nwPc = "fwd"
    /\ nwFile' = WriteScaled(nwFile, HeaderSize, 2, scale, build)
    /\ scale' = Inverse(scale)
    /\ nwPc' = "back"
    /\ UNCHANGED <<cfgVars, poolVars, nwOrig, nwOpen, nwPos, sum, min, max,
                   count, nwChanged, nwErr>>

\* the inner loop of the second pass over the rewritten sample, with 1/s
TripBack ==
    /\ nwPc = "back"
    /\ nwFile' = WriteScaled(nwFile, HeaderSize, 2, scale, build)
    /\ nwPc' = "end"
    /\ UNCHANGED <<cfgVars, poolVars, nwOrig, nwOpen, nwPos, sum, min, max,
                   count, scale, nwChanged, nwErr>>

NextTrip == TripForward \/ TripBack

SpecTrip == InitTrip /\ [][NextTrip]_vars

(***************************************************************************)
(* main and its workers                                                    *)
(***************************************************************************)
\* every argument list of at most MaxArgs arguments
ArgLists == UNION {[1..n -> ArgUniverse] : n \in 0..MaxArgs}

Init ==
    /\ \E c \in PoolConfigs :
         /\ variant = c.variant
         /\ scaleFactor = c.scaleFactor
         /\ build = c.build
    /\ WavIdle
    /\ args \in ArgLists
    /\ parallel \in ProcValues
    /\ mainPc = "start"
    /\ mp3s = <<>>
    /\ sent = 0
    /\ progress = 0
    /\ wg = 0
    /\ workers = <<>>
    /\ temp = [p \in WavPaths |-> NoFile]
    /\ src = [f \in Files |-> Original]
    /\ started = <<>>
    /\ finished = <<>>
    /\ errors = {}

\* a worker goroutine blocked in <-paths
Receiving == [pc |-> "recv", job |-> 0, err |-> "nil", open |-> FALSE]

\* WorkerCount without the clamp
WorkerCountUnclamped(p) == p

\* n of "n := *parallel; if n < 1 { n = 1 }"
WorkerCount(p) == IF p < 1 THEN 1 ELSE p

\* the mp3s main keeps of the files found
Mp3sOf(files) == SelectSeq(files, IsMp3)

\* main up to wg.Add(len(mp3s)): the arguments are read (a failure panics),
\* the workers are started and the barrier is raised
MainStart ==
    /\ mainPc = "start"
    /\ LET r == ReadFilesFromArgs(args)
           m == Mp3sOf(r.files)
       IN  IF r.err
           THEN /\ mainPc' = "panic"
                /\ UNCHANGED <<mp3s, wg, workers, started, finished>>
           ELSE /\ mp3s' = m
                /\ workers' = [w \in 1..WorkerCount(parallel) |-> Receiving]
                /\ wg' = wg + Len(m)
                /\ started' = [k \in 1..Len(m) |-> 0]
                /\ finished' = [k \in 1..Len(m) |-> 0]
                /\ mainPc' = IF Len(m) = 0 THEN "wait" ELSE "send"
    /\ UNCHANGED <<cfgVars, wavVars, args, parallel, sent, progress, temp,
                   src, errors>>

\* paths <- mp3 meets path := <-paths of worker w, which calls normalizeFile
Handoff(w) ==
    /\ mainPc = "send"
    /\ workers[w].pc = "recv"
    /\ workers' = [workers EXCEPT ![w] =
                     [pc |-> "decode", job |-> sent + 1, err |-> "nil",
                      open |-> FALSE]]
    /\ started' = [started EXCEPT ![sent + 1] = @ + 1]
    /\ mainPc' = "print"
    /\ UNCHANGED <<cfgVars, wavVars, args, parallel, mp3s, sent, progress,
                   wg, temp, src, finished, errors>>

\* the progress line after a send, and the loop's i++
MainPrint ==
    /\ mainPc = "print"
    /\ progress' = sent + 1
    /\ sent' = sent + 1
    /\ mainPc' = IF sent + 1 = Len(mp3s) THEN "wait" ELSE "send"
    /\ UNCHANGED <<cfgVars, wavVars, args, parallel, mp3s, wg, workers, temp,
                   src, started, finished, errors>>

\* wg.Wait() returns, main prints the newline and returns
MainWait ==
    /\ mainPc = "wait"
    /\ wg = 0
    /\ mainPc' = "done"
    /\ UNCHANGED <<cfgVars, wavVars, args, parallel, mp3s, sent, progress,
                   wg, workers, temp, src, started, finished, errors>>

\* the path worker w is normalizing
JobPath(w) == mp3s[workers[w].job]

\* worker w moves to pc with err, the rest of its record kept
Moved(w, pc, err) ==
    [workers EXCEPT ![w] = [pc |-> pc, job |-> workers[w].job, err |-> err,
                            open |-> workers[w].open]]

\* toWavFile: ffmpeg decodes the source to wavPath, or fails
Decode(w) ==
    /\ workers[w].pc = "decode"
    /\ \E ok \in BOOLEAN :
         IF ok
         THEN /\ temp' = [temp EXCEPT ![WavPath(JobPath(w))] =
                            FileOf(ToWav(JobPath(w), src[JobPath(w)]))]
              /\ workers' = Moved(w, "wav", "nil")
         ELSE /\ workers' = Moved(w, "ret", "decode")
              /\ UNCHANGED temp
    /\ UNCHANGED <<cfgVars, wavVars, args, parallel, mainPc, mp3s, sent,
                   progress, wg, src, started, finished, errors>>

\* AfterWav without the test of err
AfterWavIgnoringErr(changed, err) == <<"encode", "nil">>

\* where normalizeFile goes with the (changed, err) of normalizeWavFile:
\* <<pc, err>>
AfterWav(changed, err) ==
    IF err # "nil" THEN <<"ret", err>>
    ELSE IF changed THEN <<"encode", "nil">>
    ELSE <<"ret", "nil">>

\* normalizeWavFile(wavPath, scaleFactor) and the test of its results
Normalize(w) ==
    /\ workers[w].pc = "wav"
    /\ LET f == temp[WavPath(JobPath(w))]
       IN  IF ~f.exists
           THEN /\ workers' = Moved(w, "ret", "io")
                /\ UNCHANGED temp
           ELSE \E fault \in PoolFaults :
                  \E r \in {NormalizeWavFile(f.bytes, scaleFactor, variant,
                                             build, fault)} :
                    /\ temp' = [temp EXCEPT ![WavPath(JobPath(w))] =
                                   FileOf(r.file)]
                    /\ workers' =
                         [workers EXCEPT ![w] =
                            [pc |-> AfterWav(r.changed, r.err)[1],
                             job |-> workers[w].job,
                             err |-> AfterWav(r.changed, r.err)[2],
                             open |-> r.open]]
    /\ UNCHANGED <<cfgVars, wavVars, args, parallel, mainPc, mp3s, sent,
                   progress, wg, src, started, finished, errors>>

\* wavToOriginalFile: ffmpeg encodes wavPath over the source, or fails
Encode(w) ==
    /\ workers[w].pc = "encode"
    /\ \E ok \in BOOLEAN :
         IF ok /\ temp[WavPath(JobPath(w))].exists
         THEN /\ src' = [src EXCEPT ![JobPath(w)] =
                           Encoded(temp[WavPath(JobPath(w))].bytes)]
              /\ workers' = Moved(w, "ret", "nil")
         ELSE /\ workers' = Moved(w, "ret", "encode")
              /\ UNCHANGED src
    /\ UNCHANGED <<cfgVars, wavVars, args, parallel, mainPc, mp3s, sent,
                   progress, wg, temp, started, finished, errors>>

\* Removed with the os.Remove not deferred: it runs on the success path only
RemovedOnSuccessOnly(w) ==
    IF workers[w].err = "nil"
    THEN [temp EXCEPT ![WavPath(JobPath(w))] = NoFile]
    ELSE temp

\* the temporary directory after the deferred os.Remove(wavPath) of worker w
Removed(w) == [temp EXCEPT ![WavPath(JobPath(w))] = NoFile]

\* Done calling wg.Done() twice
DoneTwice(n) == n - 2

\* Done leaving the counter as it is
DoneNever(n) == n

\* the barrier after wg.Done()
Done(n) == n - 1

\* AfterJob that leaves the loop iteration after printing an error
AfterJobSkippingDone(n, err) == IF err # "nil" THEN n ELSE Done(n)

\* the barrier after the worker's handling of normalizeFile's err: the
\* error is printed, and wg.Done() is called whatever err is
AfterJob(n, err) == Done(n)

\* normalizeFile returns (the deferred os.Remove runs); the worker prints
\* an error, calls wg.Done() and loops
JobReturn(w) ==
    /\ workers[w].pc = "ret"
    /\ temp' = Removed(w)
    /\ errors' = IF workers[w].err # "nil"
                 THEN errors \cup {<<workers[w].job, workers[w].err>>}
                 ELSE errors
    /\ wg' = AfterJob(wg, workers[w].err)
    /\ finished' = [finished EXCEPT ![workers[w].job] = @ + 1]
    /\ workers' = [workers EXCEPT ![w] = Receiving]
    /\ UNCHANGED <<cfgVars, wavVars, args, parallel, mainPc, mp3s, sent,
                   progress, src, started>>

Next ==
    \/ MainStart
    \/ MainPrint
    \/ MainWait
    \/ \E w \in DOMAIN workers : Handoff(w)
    \/ \E w \in DOMAIN workers : Decode(w)
    \/ \E w \in DOMAIN workers : Normalize(w)
    \/ \E w \in DOMAIN workers : Encode(w)
    \/ \E w \in DOMAIN workers : JobReturn(w)

Spec == Init /\ [][Next]_vars

\* the ids the worker goroutines can have
WorkerIds == UNION {1..WorkerCount(p) : p \in ProcValues}

\* a step of the main goroutine; its send needs a receiving worker
MainStep ==
    MainStart \/ MainPrint \/ MainWait \/ \E w \in DOMAIN workers : Handoff(w)

\* a step of worker goroutine w inside normalizeFile, other than its call of
\* normalizeWavFile
JobStep(w) ==
    /\ w \in DOMAIN workers
    /\ (Decode(w) \/ Encode(w) \/ JobReturn(w))

\* worker goroutine w is inside its call of normalizeWavFile
InWav(w) == w \in DOMAIN workers /\ workers[w].pc = "wav"

\* the call of normalizeWavFile by worker goroutine w returns, with whatever
\* result
WavReturns(w) ==
    /\ InWav(w)
    /\ \E pc \in {"encode", "ret"}, err \in {"nil", "io", "odd"},
          open \in BOOLEAN :
          workers' = [workers EXCEPT ![w] =
                        [pc |-> pc, job |-> workers[w].job, err |-> err,
                         open |-> open]]

\* the pool under a scheduler that lets every goroutine that can run do so,
\* every call of normalizeWavFile returning
SpecFair ==
    /\ Spec
    /\ WF_vars(MainStep)
    /\ \A w \in WorkerIds : WF_vars(JobStep(w))
    /\ \A w \in WorkerIds : WF_workers(WavReturns(w))

(***************************************************************************)
(* Properties                                                              *)
(***************************************************************************)
\* worker w is inside normalizeFile
InJob(w) == workers[w].pc # "recv"

\* the temporary file of worker w's job
JobWav(w) == WavPath(JobPath(w))

\* the samples of a raw file's sample region
FileSamples(bytes) == SamplesOf(SubSeq(bytes, HeaderSize + 1, Len(bytes)))

IsSilent(samples) == \A k \in DOMAIN samples : samples[k] = 0

\* C1: every dispatched path is received by exactly one worker, which runs
\* normalizeFile on it exactly once, and main passes wg.Wait only after
\* every job has finished, with success or with an error.
C1_ExactlyOnce ==
    mainPc \notin {"start", "panic"} =>
      /\ \A k \in 1..Len(mp3s) :
           /\ started[k] =
                (IF k <= sent \/ (k = sent + 1 /\ mainPc = "print") THEN 1 ELSE 0)
           /\ finished[k] <= started[k]
           /\ Cardinality({w \in DOMAIN workers : workers[w].job = k})
                = started[k] - finished[k]
      /\ (mainPc = "done" => \A k \in 1..Len(mp3s) : finished[k] = 1)

\* a batch of MaxArgs jobs, some failed and some not, all finished, and main
\* past the barrier
C1_Witness ==
    /\ mainPc = "done"
    /\ Len(mp3s) = MaxArgs
    /\ errors # {}
    /\ \E k \in 1..Len(mp3s) : \A e \in errors : e[1] # k

\* C2: the resolved scale of src/normalize.go never makes a rounded product
\* sample*scale leave the signed 16-bit range, and after the rewrite every
\* sample has magnitude at most 32767.
C2_NoClipping ==
    variant = "clip" =>
      /\ nwPc \in {"seek", "pass2"} =>
           \A k \in DOMAIN FileSamples(nwOrig) :
              Fits16(FileSamples(nwOrig)[k], scale)
      /\ (nwPc = "ret" /\ nwChanged) =>
           \A k \in DOMAIN FileSamples(nwFile) :
              Abs(FileSamples(nwFile)[k]) <= MaxInt16

\* C3: two jobs in progress on distinct source paths never use the same
\* temporary raw file.
C3_DistinctTempFiles ==
    \A w1, w2 \in DOMAIN workers :
       (w1 # w2 /\ InJob(w1) /\ InJob(w2) /\ JobPath(w1) # JobPath(w2))
          => JobWav(w1) # JobWav(w2)

\* C4: no two jobs are in progress on the same source path at the same
\* time.
C4_NoConcurrentSamePath ==
    \A w1, w2 \in DOMAIN workers :
       (w1 # w2 /\ InJob(w1) /\ InJob(w2)) => JobPath(w1) # JobPath(w2)

\* C5: a job on a source that decodes to silence never reaches Encoding and
\* the source file is not overwritten.
C5_SilenceUntouched ==
    \A f \in Files :
       IsSilent(Decoded(f)) =>
          /\ src[f] = Original
          /\ \A w \in DOMAIN workers :
                (InJob(w) /\ JobPath(w) = f) => workers[w].pc # "encode"

\* what holds of a run that skips the rewrite: nothing is written, the
\* second pass is not entered and (false, nil) is returned
RewriteSkipped ==
    /\ nwFile = nwOrig
    /\ nwPc \notin {"seek", "pass2"}
    /\ nwPc = "ret" => (~nwChanged /\ nwErr = "nil")

\* C6 as stated: whenever the computed scale lies in the tolerance band
\* (0.9, 1.1), normalizeWavFile reports changed = false, writes nothing and
\* leaves the bytes as they were.
C6_InBandUnchanged == InBand(scale) => RewriteSkipped

\* C6 amended: in the version with the tolerance gate (part_000), whenever
\* the computed scale lies in (0.9, 1.1), normalizeWavFile reports
\* changed = false, writes nothing and leaves the bytes as they were;
\* src/normalize.go has no such gate and reports changed = true whenever it
\* returns without an error, whatever the scale.
C6_BandVersionSkips ==
    /\ (variant = "band" /\ InBand(scale)) => RewriteSkipped
    /\ (variant = "clip" /\ nwPc = "ret" /\ nwErr = "nil") => nwChanged

\* part_000 returned on a non-empty stream whose scale is in the band and
\* is not 1, so that a rewrite would have changed the samples
C6_Witness ==
    /\ variant = "band"
    /\ nwPc = "ret"
    /\ InBand(scale)
    /\ scale.n # scale.d
    /\ Len(nwOrig) > HeaderSize

\* the sample region of the file given to normalizeWavFile has odd length
OddInput == (Len(nwOrig) - HeaderSize) % 2 = 1

\* C7: on a sample region of odd length normalizeWavFile never gets past
\* the first pass, returns the odd-bytes error (or the error of a failing
\* storage call) and has modified no byte of the file.
C7_OddFails ==
    OddInput =>
      /\ nwFile = nwOrig
      /\ nwPc \notin {"resolve", "seek", "pass2"}
      /\ nwPc = "ret" => (~nwChanged /\ nwErr \in {"odd", "io"})

\* the odd-bytes error returned for a region that spans several chunks
C7_Witness ==
    /\ OddInput
    /\ Len(nwOrig) > HeaderSize + BufSize
    /\ nwPc = "ret"
    /\ nwErr = "odd"

\* the number of normalizeFile calls that have returned
RECURSIVE SumTo(_, _)
SumTo(f, k) == IF k = 0 THEN 0 ELSE f[k] + SumTo(f, k - 1)

\* some goroutine can take a step: main is not blocked in its send or in
\* wg.Wait(), or a worker is inside normalizeFile
CanStep ==
    \/ mainPc \in {"start", "print"}
    \/ mainPc = "send" /\ \E w \in DOMAIN workers : workers[w].pc = "recv"
    \/ mainPc = "wait" /\ wg = 0
    \/ \E w \in DOMAIN workers : InJob(w)

\* C8: a worker whose normalizeFile returned an error prints it, calls
\* wg.Done() once and goes back to receiving, no other goroutine being
\* touched; the barrier counts the unfinished jobs, the batch is never
\* stuck, and main passes the barrier only with every job finished.
C8_ErrorsDoNotAbort ==
    /\ [][\A w \in DOMAIN workers :
            (workers[w].pc = "ret" /\ workers[w].err # "nil"
               /\ workers'[w] # workers[w])
            => /\ <<workers[w].job, workers[w].err>> \in errors'
               /\ wg' = wg - 1
               /\ workers'[w].pc = "recv"
               /\ mainPc' = mainPc
               /\ \A v \in DOMAIN workers : v # w => workers'[v] = workers[v]
        ]_vars
    /\ [](mainPc \notin {"start", "panic"} =>
            /\ wg = Len(mp3s) - SumTo(finished, Len(mp3s))
            /\ mainPc # "done" => CanStep
            /\ mainPc = "done" => \A k \in 1..Len(mp3s) : finished[k] = 1)

\* main is past the barrier of a batch in which one job has failed and a job
\* dispatched after it has been processed without an error
C8_Witness ==
    /\ mainPc = "done"
    /\ \E e \in errors : \E k \in 1..Len(mp3s) :
          /\ e[1] < k
          /\ finished[k] = 1
          /\ \A d \in errors : d[1] # k

\* C9: when normalizeFile returns, in whatever way, the job's temporary raw
\* file is not there; with no job in progress the temporary directory is
\* empty.
C9_TempRemoved ==
    /\ [][\A w \in DOMAIN workers :
            (workers[w].pc = "ret" /\ workers'[w].pc = "recv")
            => ~temp'[JobWav(w)].exists]_vars
    /\ []((\A w \in DOMAIN workers : ~InJob(w))
            => \A p \in WavPaths : ~temp[p].exists)

\* a job whose encode failed, after its raw file was written, has returned,
\* and no temporary file is left
C9_Witness ==
    /\ \E e \in errors : e[2] = "encode"
    /\ workers # <<>>
    /\ \A w \in DOMAIN workers : ~InJob(w)
    /\ \A p \in WavPaths : ~temp[p].exists

\* the steps of a job
JobEdges ==
    {<<"recv", "decode">>, <<"decode", "wav">>, <<"decode", "ret">>,
     <<"wav", "encode">>, <<"wav", "ret">>, <<"encode", "ret">>,
     <<"ret", "recv">>}

\* C10: a job moves only along decode -> normalizeWavFile -> {skip |
\* encode} -> return, an error leading to the return only; the encode is
\* entered only after a successful decode and a normalizeWavFile that met
\* no storage error and returned (true, nil) with the raw file closed, and
\* only a successful encode changes a source file.
C10_JobOrder ==
    [][/\ \A w \in DOMAIN workers :
            /\ workers'[w].pc # workers[w].pc
                 => <<workers[w].pc, workers'[w].pc>> \in JobEdges
            /\ (workers[w].pc = "decode" /\ workers'[w].pc = "wav")
                 => temp'[JobWav(w)] = FileOf(ToWav(JobPath(w), src[JobPath(w)]))
            /\ (workers[w].pc = "wav" /\ workers'[w].pc = "encode")
                 => /\ workers'[w].err = "nil"
                    /\ ~workers'[w].open
                    /\ temp[JobWav(w)].exists
                    /\ \E r \in {NormalizeWavFile(temp[JobWav(w)].bytes,
                                 scaleFactor, variant, build, NoFault)} :
                          /\ r.changed
                          /\ r.err = "nil"
                          /\ temp'[JobWav(w)] = FileOf(r.file)
            /\ (workers[w].pc # "recv" /\ workers[w].err # "nil")
                 => workers[w].pc = "ret"
       /\ src' # src =>
            \A f \in Files :
               src'[f] # src[f]
                 => \E w \in DOMAIN workers :
                      /\ workers[w].pc = "encode"
                      /\ JobPath(w) = f
                      /\ workers'[w].pc = "ret"
                      /\ workers'[w].err = "nil"
      ]_vars

\* a job that went through decode, rewrite and encode is about to return
\* with its source file re-encoded
C10_Witness ==
    \E w \in DOMAIN workers :
       /\ workers[w].pc = "ret"
       /\ workers[w].err = "nil"
       /\ src[JobPath(w)].enc

\* C11: whenever the progress line shows d / total, at least d of the
\* dispatched jobs have finished.
C11_ProgressByCompletion ==
    mainPc \notin {"start", "panic"} =>
       progress <= SumTo(finished, Len(mp3s))

\* the number of jobs inside normalizeFile
Running == Cardinality({w \in DOMAIN workers : InJob(w)})

\* C19: for every -proc value p, zero and negative ones included, exactly
\* max(p, 1) workers are started, at most max(p, 1) jobs run normalizeFile
\* at the same time, and while main has a path to send there is a worker:
\* one that is receiving, or one that will receive when its job returns.
C19_ProcClamp ==
    mainPc \notin {"start", "panic"} =>
      /\ Len(workers) = Max2(parallel, 1)
      /\ Running <= Max2(parallel, 1)
      /\ mainPc = "send" =>
           \E w \in DOMAIN workers : workers[w].pc = "recv" \/ InJob(w)

\* a batch of MaxArgs jobs has been worked off by the one worker started for
\* a -proc value below 1
C19_Witness ==
    /\ parallel < 1
    /\ mainPc = "done"
    /\ Len(mp3s) = MaxArgs
    /\ Len(workers) = 1

\* C12: under fair scheduling, every job step terminating, main gets from
\* its dispatch loop to wg.Wait, from wg.Wait to its return, and every run
\* ends with main returned (or panicked on an unreadable argument): it is
\* never stuck in a send or in wg.Wait.
C12_Terminates ==
    /\ (mainPc = "send") ~> (mainPc = "wait")
    /\ (mainPc = "wait") ~> (mainPc = "done")
    /\ <>(mainPc \in {"done", "panic"})

\* main has returned from a batch of MaxArgs paths that a single worker had
\* to take one after the other, one of them failing
C12_Witness ==
    /\ mainPc = "done"
    /\ Len(mp3s) = MaxArgs
    /\ Len(workers) = 1
    /\ errors # {}

\* the samples of the file normalizeWavFile was called on
OrigSamples == FileSamples(nwOrig)

\* the sum of the absolute values of samples lo..hi, as integers
RECURSIVE AbsSumOf(_, _, _)
AbsSumOf(samples, lo, hi) ==
    IF lo > hi THEN 0
    ELSE IF lo = hi THEN Abs(samples[lo])
    ELSE LET mid == (lo + hi) \div 2
         IN  AbsSumOf(samples, lo, mid) + AbsSumOf(samples, mid + 1, hi)

\* C17: after the analysis pass over an even-length stream, count is the
\* number of samples and sum is the exact sum of their absolute values, the
\* uint64 accumulator not having wrapped.
C17_ExactSum ==
    nwPc = "resolve" =>
      /\ count = Len(OrigSamples)
      /\ sum = AbsSumOf(OrigSamples, 1, Len(OrigSamples))

\* the smallest of samples lo..hi (lo <= hi)
RECURSIVE SmallestOf(_, _, _)
SmallestOf(samples, lo, hi) ==
    IF lo = hi THEN samples[lo]
    ELSE LET mid == (lo + hi) \div 2
         IN  Min2(SmallestOf(samples, lo, mid), SmallestOf(samples, mid + 1, hi))

\* the largest of samples lo..hi (lo <= hi)
RECURSIVE LargestOf(_, _, _)
LargestOf(samples, lo, hi) ==
    IF lo = hi THEN samples[lo]
    ELSE LET mid == (lo + hi) \div 2
         IN  Max2(LargestOf(samples, lo, mid), LargestOf(samples, mid + 1, hi))

\* the smallest and the largest sample of the file, and its largest absolute
\* sample value (0 for the empty stream)
OrigSmallest == SmallestOf(OrigSamples, 1, Len(OrigSamples))
OrigLargest == LargestOf(OrigSamples, 1, Len(OrigSamples))
OrigPeak ==
    IF OrigSamples = <<>> THEN 0 ELSE Max2(Abs(OrigSmallest), Abs(OrigLargest))

\* the analysis pass of src/normalize.go is over (min and max are read), or
\* the peak has been derived from them (max holds it)
Analyzed == variant = "clip" /\ nwPc = "resolve"
PeakDerived == variant = "clip" /\ nwPc \in {"seek", "pass2"}

OrigUncapped ==
    Ratio(scaleFactor, Len(OrigSamples), AbsSumOf(OrigSamples, 1, Len(OrigSamples)))

\* min(scaleTarget * sampleCount / absSum, 32767 / peak) of the file, the
\* peak being its largest absolute sample value
OrigCapped ==
    IF GreaterThanCeiling(OrigUncapped, OrigPeak)
    THEN Fin(MaxInt16, OrigPeak) ELSE OrigUncapped

\* C15: the scale src/normalize.go applies is
\* min(scaleTarget * sampleCount / absSum, 32767 / peak) with
\* peak = max(maxSample, -minSample), and the peak of the rewritten stream
\* is at most 32767.
C15_CapFormula ==
    variant = "clip" =>
      /\ nwPc \in {"seek", "pass2"} => scale = OrigCapped
      /\ (nwPc = "ret" /\ nwChanged) =>
           \A k \in DOMAIN FileSamples(nwFile) :
              Abs(FileSamples(nwFile)[k]) <= MaxInt16

\* the file holds n >= 1 samples that all have the same positive value
Uniform ==
    /\ OrigSamples # <<>>
    /\ OrigSamples[1] > 0
    /\ \A k \in DOMAIN OrigSamples : OrigSamples[k] = OrigSamples[1]

\* C14: on n >= 1 samples of one positive value v, with 0 < scaleFactor <=
\* 32767, src/normalize.go computes avg = n/(n*v), applies the uncapped
\* scale scaleFactor/v, and every rewritten sample equals scaleFactor.
C14_UniformStream ==
    (variant = "clip" /\ Uniform /\ scaleFactor \in 1..MaxInt16) =>
      /\ nwPc \in {"resolve", "seek", "pass2"} =>
           /\ count = Len(OrigSamples)
           /\ sum = Len(OrigSamples) * OrigSamples[1]
      /\ nwPc \in {"seek", "pass2"} =>
           /\ scale = Fin(scaleFactor * Len(OrigSamples),
                          OrigSamples[1] * Len(OrigSamples))
           /\ ~GreaterThanCeiling(scale, OrigSamples[1])
      /\ (nwPc = "ret" /\ nwChanged) =>
           FileSamples(nwFile) = [k \in DOMAIN OrigSamples |-> scaleFactor]

\* the scenario of the spec: 8 samples of value 100 rewritten with
\* scaleFactor 1400 and scale 11200/800 = 14 to 8 samples of value 1400
C14_Witness ==
    /\ variant = "clip"
    /\ nwPc = "ret"
    /\ nwChanged
    /\ OrigSamples = [k \in 1..8 |-> 100]
    /\ scale = Fin(11200, 800)
    /\ FileSamples(nwFile) = [k \in 1..8 |-> 1400]

\* what the rewrite stores for sample k of the file as it was: the rounded
\* product, converted to int16
Rewritten(k) == ScaleSample(OrigSamples[k], scale, build)

\* sample k (1-based) lies before byte offset pos
Before(k, pos) == HeaderSize + 2 * k <= pos

\* C16: the second pass overwrites in place, chunk by chunk: while it runs,
\* every sample before the file offset holds the rounded product of the
\* ORIGINAL sample and the scale and every byte from the offset on is as it
\* was; when it has returned (true, nil) every sample holds that product;
\* each write covers exactly the bytes of the chunk just read; the 44
\* header bytes and the length of the file never change.
C16_InPlaceRewrite ==
    /\ [](/\ Len(nwFile) = Len(nwOrig)
          /\ SubSeq(nwFile, 1, Min2(HeaderSize, Len(nwFile)))
               = SubSeq(nwOrig, 1, Min2(HeaderSize, Len(nwOrig)))
          /\ nwPc = "pass2" =>
               /\ \A k \in DOMAIN OrigSamples :
                     FileSamples(nwFile)[k] =
                       (IF Before(k, nwPos) THEN Rewritten(k) ELSE OrigSamples[k])
               /\ \A i \in (nwPos + 1)..Len(nwFile) : nwFile[i] = nwOrig[i]
          /\ (nwPc = "ret" /\ nwChanged) =>
               /\ nwErr = "nil"
               /\ FileSamples(nwFile) = [k \in DOMAIN OrigSamples |-> Rewritten(k)])
    /\ [][nwFile' # nwFile =>
            /\ nwPc = "pass2"
            /\ nwPos' = nwPos + ReadLen(nwFile, nwPos)
            /\ \A i \in DOMAIN nwFile :
                  (i <= nwPos \/ i > nwPos') => nwFile'[i] = nwFile[i]
         ]_vars

\* a file whose samples span several chunks has been rewritten whole, the
\* second chunk included
C16_Witness ==
    /\ nwPc = "ret"
    /\ nwChanged
    /\ Len(nwOrig) > HeaderSize + BufSize
    /\ nwFile[Len(nwFile)] # nwOrig[Len(nwOrig)]
    /\ nwFile[HeaderSize + 1] # nwOrig[HeaderSize + 1]

\* the round trip of SpecTrip: the sample x, the scale s, the sample y
\* stored on the way out and the sample z stored on the way back
TripX == OrigSamples[1]
TripS == IF nwPc = "fwd" THEN scale ELSE Inverse(scale)
TripY == ScaleSample(TripX, TripS, build)
TripZ == FileSamples(nwFile)[1]

\* both ways are done and neither product left the int16 range
TripInRange ==
    /\ nwPc = "end"
    /\ Fits16(TripX, TripS)
    /\ Fits16(TripY, Inverse(TripS))

\* C13 as stated: for every sample x and positive scale s, neither step
\* leaving the int16 range, rewriting x with s and the result with 1/s
\* gives a value within 1 of x.
C13_RoundTrip == TripInRange => Abs(TripZ - TripX) <= 1

\* C13 amended: neither step leaving the int16 range, the round trip gives
\* a value z with |z - x| <= 1/(2s) + 1/2, all values being int16; for
\* s >= 1 it gives x back, for s < 1 it can miss x by more than 1.
C13_RoundTripBound ==
    TripInRange =>
      /\ 2 * TripS.n * Abs(TripZ - TripX) <= TripS.d + TripS.n
      /\ TripS.n >= TripS.d => TripZ = TripX
      /\ TripY \in MinInt16..MaxInt16
      /\ TripZ \in MinInt16..MaxInt16

\* a round trip with a scale above 1 that rounded on the way out, and one
\* with a scale below 1 that came back more than 1 away
C13_Witness ==
    /\ TripInRange
    /\ \/ /\ TripS.n > TripS.d
          /\ (TripX * TripS.n) % TripS.d # 0
          /\ TripZ = TripX
       \/ /\ TripS.n < TripS.d
          /\ Abs(TripZ - TripX) > 1
==========================================================================
